---- MODULE Spec2Model ----
(***************************************************************************)
(* Keymap action model of the Keybow 2040 firmware layer:                  *)
(*   lib/keyboard/keys/abc.py    KeyAction, And                            *)
(*   lib/keyboard/keys/light.py  AlwaysOn, SwitchWhenPressed,              *)
(*                               ToggleWhenPressed, Mirror                 *)
(*   lib/keyboard/keys/press.py  Press, Press.parse_chords                 *)
(*   lib/keyboard/layers.py      Layer                                     *)
(* Strings are sequences of one-character strings, so that str.split and   *)
(* the token lookups of parse_chords are computed and not assumed.         *)
(***************************************************************************)
EXTENDS Integers, Sequences, FiniteSets, TLC

VARIABLES
    pc,                 \* position of the program
    chords,             \* the chord string handed to Press(...) / parse_chords
    parsed,             \* <<>> or <<result of the last Press.parse_chords call>>
    heap,               \* the KeyAction objects constructed so far (id = index)
    key_action_matrix,  \* Layer.key_action_matrix: rows of KeyAction ids
    declared,           \* the keymap as the caller wrote it (argument of Layer)
    reverse,            \* the reverse argument of Layer
    keys,               \* KEYBOW.keys: per key the driver state and callbacks
    down,               \* the switches physically held down right now
    host_leds,          \* the host indicator LEDs that are on (KEYBOARD.led_on)
    led,                \* the colour last written to each key's LED
    ledws,              \* LED writes <<key, colour>> of the current cycle / call
    sent,               \* every KEYBOARD.send so far, one keycode tuple per call
    calls,              \* reactions <<method, action, key>> of the current cycle
    edges,              \* per key the edge the last matrix refresh detected
    hist,               \* per action the edge reactions it was given directly
    budget,             \* environment events still allowed
    error               \* "none", or the exception that stopped the program

vars == <<pc, chords, parsed, heap, key_action_matrix, declared, reverse, keys,
          down, host_leds, led, ledws, sent, calls, edges, hist, budget,
          error>>

-----------------------------------------------------------------------------
(* Bounds *)

MaxPieces == 3      \* pieces concatenated into a generated chord string
MaxFlips  == 2      \* switch and host LED flips in a run of the polling loop
MaxCalls  == 4      \* reactions and host LED flips in a run of direct calls

-----------------------------------------------------------------------------
(* Strings *)

s_alt     == <<"a","l","t">>
s_cmd     == <<"c","m","d">>
s_ctrl    == <<"c","t","r","l">>
s_option  == <<"o","p","t","i","o","n">>
s_shift   == <<"s","h","i","f","t">>
s_space   == <<"s","p","a","c","e">>
s_tab     == <<"t","a","b">>
s_left    == <<"l","e","f","t">>
s_right   == <<"r","i","g","h","t">>
s_up      == <<"u","p">>
s_down    == <<"d","o","w","n">>
s_unicorn == <<"u","n","i","c","o","r","n">>

LowerCase == <<"a","b","c","d","e","f","g","h","i","j","k","l","m",
               "n","o","p","q","r","s","t","u","v","w","x","y","z">>
UpperCase == <<"A","B","C","D","E","F","G","H","I","J","K","L","M",
               "N","O","P","Q","R","S","T","U","V","W","X","Y","Z">>

IndexOf(seq, c) == CHOOSE i \in 1..Len(seq) : seq[i] = c
Has(seq, c)     == \E i \in 1..Len(seq) : seq[i] = c

\* Python's str.split(sep) for a one-character separator: always at least
\* one part, empty parts kept.
RECURSIVE split(_, _)
split(s, sep) ==
    IF ~Has(s, sep) THEN <<s>>
    ELSE LET i == CHOOSE i \in 1..Len(s) :
                    s[i] = sep /\ \A j \in 1..(i - 1) : s[j] # sep
         IN  <<SubSeq(s, 1, i - 1)>> \o split(SubSeq(s, i + 1, Len(s)), sep)

-----------------------------------------------------------------------------
(* Keycodes and the layout resolver *)

\* Press.SpecialKeys; a keycode is written by its name in Keycode.
SpecialKeys ==
    (s_alt    :> "ALT")         @@ (s_cmd   :> "COMMAND")     @@
    (s_ctrl   :> "CONTROL")     @@ (s_option :> "OPTION")     @@
    (s_shift  :> "SHIFT")       @@ (s_space :> "SPACE")       @@
    (s_tab    :> "TAB")         @@ (s_left  :> "LEFT_ARROW")  @@
    (s_right  :> "RIGHT_ARROW") @@ (s_up    :> "UP_ARROW")    @@
    (s_down   :> "DOWN_ARROW")

\* globals.LAYOUT.keycodes(keyname) of KeyboardLayoutUS: the keycodes that
\* type one character; a capital letter is SHIFT plus the letter's key. A
\* string that is not exactly one character makes ord() raise TypeError, a
\* character without a key raises ValueError.
LAYOUT_keycodes(keyname) ==
    IF Len(keyname) # 1
    THEN [error |-> "TypeError", keycodes |-> <<>>]
    ELSE IF Has(LowerCase, keyname[1])
    THEN [error |-> "none",
          keycodes |-> <<UpperCase[IndexOf(LowerCase, keyname[1])]>>]
    ELSE IF Has(UpperCase, keyname[1])
    THEN [error |-> "none", keycodes |-> <<"SHIFT", keyname[1]>>]
    ELSE [error |-> "ValueError", keycodes |-> <<>>]

-----------------------------------------------------------------------------
(* Press.parse_chords *)

\* Mutant: only the first keycode of the resolver's answer is kept.
parse_keyname_first_code(acc, keyname) ==
    IF acc.error # "none" THEN acc
    ELSE IF keyname \in DOMAIN SpecialKeys
    THEN [acc EXCEPT !.keycodes_chord = Append(@, SpecialKeys[keyname])]
    ELSE LET r == LAYOUT_keycodes(keyname)
         IN  [error          |-> r.error,
              keycodes_chord |-> acc.keycodes_chord \o
                                    (IF r.keycodes = <<>> THEN <<>>
                                     ELSE <<r.keycodes[1]>>),
              consulted      |-> Append(acc.consulted, keyname)]

\* Mutant: a keyname the resolver rejects is skipped instead of raising.
parse_keyname_skip_unknown(acc, keyname) ==
    IF acc.error # "none" THEN acc
    ELSE IF keyname \in DOMAIN SpecialKeys
    THEN [acc EXCEPT !.keycodes_chord = Append(@, SpecialKeys[keyname])]
    ELSE LET r == LAYOUT_keycodes(keyname)
         IN  [error          |-> "none",
              keycodes_chord |-> acc.keycodes_chord \o r.keycodes,
              consulted      |-> Append(acc.consulted, keyname)]

\* Mutant: the resolver is asked first, the built-in table only when the
\* resolver fails.
parse_keyname_layout_first(acc, keyname) ==
    IF acc.error # "none" THEN acc
    ELSE LET r == LAYOUT_keycodes(keyname)
         IN  IF r.error = "none"
             THEN [error          |-> "none",
                   keycodes_chord |-> acc.keycodes_chord \o r.keycodes,
                   consulted      |-> Append(acc.consulted, keyname)]
             ELSE IF keyname \in DOMAIN SpecialKeys
             THEN [error          |-> "none",
                   keycodes_chord |-> Append(acc.keycodes_chord, SpecialKeys[keyname]),
                   consulted      |-> Append(acc.consulted, keyname)]
             ELSE [error          |-> r.error,
                   keycodes_chord |-> acc.keycodes_chord,
                   consulted      |-> Append(acc.consulted, keyname)]

\* Mutant: an empty keyname is passed over instead of going to the resolver.
parse_keyname_empty_ok(acc, keyname) ==
    IF acc.error # "none" \/ keyname = <<>> THEN acc
    ELSE IF keyname \in DOMAIN SpecialKeys
    THEN [acc EXCEPT !.keycodes_chord = Append(@, SpecialKeys[keyname])]
    ELSE LET r == LAYOUT_keycodes(keyname)
         IN  [error          |-> r.error,
              keycodes_chord |-> acc.keycodes_chord \o r.keycodes,
              consulted      |-> Append(acc.consulted, keyname)]

\* The body of the inner loop: one keyname appended to the chord being built.
\* acc.consulted lists the keynames handed to the layout resolver so far.
parse_keyname(acc, keyname) ==
    IF acc.error # "none" THEN acc
    ELSE IF keyname \in DOMAIN SpecialKeys
    THEN [acc EXCEPT !.keycodes_chord = Append(@, SpecialKeys[keyname])]
    ELSE LET r == LAYOUT_keycodes(keyname)
         IN  [error          |-> r.error,
              keycodes_chord |-> acc.keycodes_chord \o r.keycodes,
              consulted      |-> Append(acc.consulted, keyname)]

RECURSIVE parse_keynames(_, _)
parse_keynames(acc, keynames) ==
    IF keynames = <<>> THEN acc
    ELSE parse_keynames(parse_keyname(acc, Head(keynames)), Tail(keynames))

\* Mutant: a parsed chord is put in front of the chords parsed before it.
parse_chord_prepend(acc, chord) ==
    IF acc.error # "none" THEN acc
    ELSE LET r == parse_keynames([error |-> "none", keycodes_chord |-> <<>>,
                                  consulted |-> acc.consulted],
                                 split(chord, "-"))
         IN  [error           |-> r.error,
              keycodes_chords |-> IF r.error = "none"
                                  THEN <<r.keycodes_chord>> \o acc.keycodes_chords
                                  ELSE acc.keycodes_chords,
              consulted       |-> r.consulted]

\* The body of the outer loop: one chord parsed and appended.
parse_chord(acc, chord) ==
    IF acc.error # "none" THEN acc
    ELSE LET r == parse_keynames([error |-> "none", keycodes_chord |-> <<>>,
                                  consulted |-> acc.consulted],
                                 split(chord, "-"))
         IN  [error           |-> r.error,
              keycodes_chords |-> IF r.error = "none"
                                  THEN Append(acc.keycodes_chords, r.keycodes_chord)
                                  ELSE acc.keycodes_chords,
              consulted       |-> r.consulted]

RECURSIVE parse_chord_list(_, _)
parse_chord_list(acc, chordList) ==
    IF chordList = <<>> THEN acc
    ELSE parse_chord_list(parse_chord(acc, Head(chordList)), Tail(chordList))

\* Press.parse_chords(chords): error = "none" and the list of keycode lists,
\* or the exception raised (and then nothing is returned).
parse_chords(str) ==
    LET r == parse_chord_list([error |-> "none", keycodes_chords |-> <<>>,
                               consulted |-> <<>>],
                              split(str, " "))
    IN  [error           |-> r.error,
         keycodes_chords |-> IF r.error = "none" THEN r.keycodes_chords ELSE <<>>,
         consulted       |-> r.consulted]

-----------------------------------------------------------------------------
(* Colours (code.py) and host indicators *)

WHITE    == <<255, 252, 254>>
PURPLE   == <<36, 30, 47>>
PINK     == <<255, 152, 186>>
LAVENDER == <<230, 230, 250>>
INDIGO   == <<148, 87, 235>>
LED_DARK == <<0, 0, 0>>         \* an LED nothing has written yet

HostLeds == {"CAPS_LOCK"}

-----------------------------------------------------------------------------
(* The key matrix driver (keybow2040) and the HID keyboard *)

NumKeys == 16
Width   == 4
KeyNumbers == 0..(NumKeys - 1)

\* keybow2040.number_to_xy
\* keybow2040.xy_to_number(x, y): the inverse mapping of the driver
xy_to_number(x, y) == x + y * Width

number_to_xy(number) == <<number % Width, number \div Width>>

None == <<>>

\* A world is what a reaction can read and change: the objects, the LEDs,
\* the HID sink, the logs of the running cycle and the pending exception.
\* An entry of calls is <<method, self, key, depth>>.
\* depth counts the reactions being run: 0 for a call made by the Layer, the
\* driver or the caller, 1 and more for a call made by an And.
World == [heap |-> heap, led |-> led, ledws |-> ledws, sent |-> sent,
          calls |-> calls, error |-> error, depth |-> 0,
          key_action_matrix |-> key_action_matrix]

\* key.set_led(r, g, b)
Key_set_led(w, key, color) ==
    [w EXCEPT !.led[key] = color, !.ledws = Append(@, <<key, color>>)]

\* globals.KEYBOARD.send(*keycodes): one chord pressed and released
KEYBOARD_send(w, keycodes) == [w EXCEPT !.sent = Append(@, keycodes)]

\* globals.KEYBOARD.led_on(led)
KEYBOARD_led_on(l) == l \in host_leds

-----------------------------------------------------------------------------
(* Constructors *)

AlwaysOn_init(color) == [cls |-> "AlwaysOn", color |-> color]

SwitchWhenPressed_init(color_off, color_on) ==
    [cls |-> "SwitchWhenPressed", color |-> color_off,
     COLOR_OFF |-> color_off, COLOR_ON |-> color_on]

\* Mutant: the stored colour starts as colorOn while the latch starts False.
ToggleWhenPressed_init_lit(color_off, color_on) ==
    [cls |-> "ToggleWhenPressed", color |-> color_on, onoff |-> FALSE,
     COLOR_OFF |-> color_off, COLOR_ON |-> color_on]

ToggleWhenPressed_init(color_off, color_on) ==
    [cls |-> "ToggleWhenPressed", color |-> color_off, onoff |-> FALSE,
     COLOR_OFF |-> color_off, COLOR_ON |-> color_on]

Mirror_init(l, color_off, color_on) ==
    [cls |-> "Mirror", LED |-> l, COLOR_OFF |-> color_off, COLOR_ON |-> color_on]

And_init(first, second) == [cls |-> "And", first |-> first, second |-> second]

\* Press(chords): the exception of parse_chords leaves the constructor, and
\* then there is no object.
Press_init(str) ==
    LET r == parse_chords(str)
    IN  [error |-> r.error,
         obj   |-> [cls |-> "Press", keycodes_chords |-> r.keycodes_chords]]

-----------------------------------------------------------------------------
(* Reactions. Call(w, self, method, key) is self.method(key). *)

RECURSIVE Call(_, _, _, _)

\* KeyAction.update / on_press / on_release / on_hold: the empty defaults
KeyAction_update(w, self, key)     == w
\* Mutant: a press dims the stored colour of an Action that has one.
KeyAction_on_press_dim(w, self, key) ==
    IF "color" \in DOMAIN w.heap[self]
    THEN [w EXCEPT !.heap[self].color = LED_DARK]
    ELSE w

KeyAction_on_press(w, self, key)   == w
\* Mutant: letting go of the key clears a latch, where there is one.
KeyAction_on_release_unlatch(w, self, key) ==
    IF "onoff" \in DOMAIN w.heap[self]
    THEN [w EXCEPT !.heap[self].onoff = FALSE,
                   !.heap[self].color = w.heap[self].COLOR_OFF]
    ELSE w

KeyAction_on_release(w, self, key) == w
\* Mutant: holding the key repeats the press (key repeat).
KeyAction_on_hold_repeat(w, self, key) == Call(w, self, "on_press", key)

KeyAction_on_hold(w, self, key)    == w

\* Mutant: the colour goes to the LED of the next key.
AlwaysOn_update_next_key(w, self, key) ==
    Key_set_led(w, (key + 1) % NumKeys, w.heap[self].color)

AlwaysOn_update(w, self, key) == Key_set_led(w, key, w.heap[self].color)

\* Mutant: the colour is shared by all SwitchWhenPressed objects.
SwitchWhenPressed_on_press_shared(w, self, key) ==
    [w EXCEPT !.heap = [b \in DOMAIN w.heap |->
                          IF w.heap[b].cls = "SwitchWhenPressed"
                          THEN [w.heap[b] EXCEPT !.color = w.heap[self].COLOR_ON]
                          ELSE w.heap[b]]]

\* Mutant: the press lights the key at once, ahead of the next update.
SwitchWhenPressed_on_press_lit(w, self, key) ==
    Key_set_led([w EXCEPT !.heap[self].color = w.heap[self].COLOR_ON],
                key, w.heap[self].COLOR_ON)

SwitchWhenPressed_on_press(w, self, key) ==
    [w EXCEPT !.heap[self].color = w.heap[self].COLOR_ON]

\* Mutant: the release does not restore the colour.
SwitchWhenPressed_on_release_stuck(w, self, key) == w

SwitchWhenPressed_on_release(w, self, key) ==
    [w EXCEPT !.heap[self].color = w.heap[self].COLOR_OFF]

\* Mutant: the latch is set instead of flipped.
ToggleWhenPressed_on_press_set(w, self, key) ==
    [w EXCEPT !.heap[self].onoff = TRUE,
              !.heap[self].color = w.heap[self].COLOR_ON]

ToggleWhenPressed_on_press(w, self, key) ==
    LET onoff == ~w.heap[self].onoff
    IN  [w EXCEPT !.heap[self].onoff = onoff,
                  !.heap[self].color = IF onoff THEN w.heap[self].COLOR_ON
                                                ELSE w.heap[self].COLOR_OFF]

\* Mutant: once the key shows colorOn it keeps it.
Mirror_update_latched(w, self, key) ==
    IF KEYBOARD_led_on(w.heap[self].LED) \/ w.led[key] = w.heap[self].COLOR_ON
    THEN Key_set_led(w, key, w.heap[self].COLOR_ON)
    ELSE Key_set_led(w, key, w.heap[self].COLOR_OFF)

Mirror_update(w, self, key) ==
    IF KEYBOARD_led_on(w.heap[self].LED)
    THEN Key_set_led(w, key, w.heap[self].COLOR_ON)
    ELSE Key_set_led(w, key, w.heap[self].COLOR_OFF)

\* Mutant: the second child is updated before the first.
And_update_reversed(w, self, key) ==
    Call(Call(w, w.heap[self].second, "update", key),
         w.heap[self].first, "update", key)

And_update(w, self, key) ==
    Call(Call(w, w.heap[self].first, "update", key),
         w.heap[self].second, "update", key)

And_on_press(w, self, key) ==
    Call(Call(w, w.heap[self].first, "on_press", key),
         w.heap[self].second, "on_press", key)

And_on_release(w, self, key) ==
    Call(Call(w, w.heap[self].first, "on_release", key),
         w.heap[self].second, "on_release", key)

\* Mutant: the second child is left out.
And_on_hold_first_only(w, self, key) ==
    Call(w, w.heap[self].first, "on_hold", key)

And_on_hold(w, self, key) ==
    Call(Call(w, w.heap[self].first, "on_hold", key),
         w.heap[self].second, "on_hold", key)

RECURSIVE send_each(_, _)
send_each(w, keycodes_chords) ==
    IF keycodes_chords = <<>> THEN w
    ELSE send_each(KEYBOARD_send(w, Head(keycodes_chords)), Tail(keycodes_chords))

\* Mutant: all chords go out in one send.
Press_on_press_one_send(w, self, key) ==
    LET RECURSIVE flat(_)
        flat(cs) == IF cs = <<>> THEN <<>> ELSE Head(cs) \o flat(Tail(cs))
    IN  KEYBOARD_send(w, flat(w.heap[self].keycodes_chords))

\* Mutant: a press uses the chords up, the first group is dropped after it.
Press_on_press_consuming(w, self, key) ==
    [send_each(w, w.heap[self].keycodes_chords)
        EXCEPT !.heap[self].keycodes_chords = Tail(@)]

Press_on_press(w, self, key) == send_each(w, w.heap[self].keycodes_chords)

LightClasses == {"AlwaysOn", "SwitchWhenPressed", "ToggleWhenPressed"}

\* Method resolution: the class of self decides which body runs; a pending
\* exception means the call is never reached.
Call(w, self, method, key) ==
    IF w.error # "none" THEN w
    ELSE LET cls == w.heap[self].cls
             w1  == [w EXCEPT !.calls = Append(@, <<method, self, key, w.depth>>),
                              !.depth = @ + 1]
             r   ==
               CASE method = "update" ->
                    (CASE cls \in LightClasses -> AlwaysOn_update(w1, self, key)
                       [] cls = "Mirror"       -> Mirror_update(w1, self, key)
                       [] cls = "And"          -> And_update(w1, self, key)
                       [] OTHER                -> KeyAction_update(w1, self, key))
               [] method = "on_press" ->
                    (CASE cls = "SwitchWhenPressed" -> SwitchWhenPressed_on_press(w1, self, key)
                       [] cls = "ToggleWhenPressed" -> ToggleWhenPressed_on_press(w1, self, key)
                       [] cls = "And"               -> And_on_press(w1, self, key)
                       [] cls = "Press"             -> Press_on_press(w1, self, key)
                       [] OTHER                     -> KeyAction_on_press(w1, self, key))
               [] method = "on_release" ->
                    (CASE cls = "SwitchWhenPressed" -> SwitchWhenPressed_on_release(w1, self, key)
                       [] cls = "And"               -> And_on_release(w1, self, key)
                       [] OTHER                     -> KeyAction_on_release(w1, self, key))
               [] method = "on_hold" ->
                    (CASE cls = "And" -> And_on_hold(w1, self, key)
                       [] OTHER       -> KeyAction_on_hold(w1, self, key))
         IN  [r EXCEPT !.depth = w.depth]

\* Mutant: the press and release callbacks are bound the wrong way round.
KeyAction_hook_swapped(ks, self, key) ==
    [ks EXCEPT ![key].press_function   = <<self, "on_release">>,
               ![key].release_function = <<self, "on_press">>,
               ![key].hold_function    = <<self, "on_hold">>]

\* Mutant: hook forgets the release callback.
KeyAction_hook_no_release(ks, self, key) ==
    [ks EXCEPT ![key].press_function = <<self, "on_press">>,
               ![key].hold_function  = <<self, "on_hold">>]

\* KeyAction.hook(key): the three callbacks of the key become bound methods
\* of self; a Key object is always truthy.
KeyAction_hook(ks, self, key) ==
    [ks EXCEPT ![key].press_function   = <<self, "on_press">>,
               ![key].release_function = <<self, "on_release">>,
               ![key].hold_function    = <<self, "on_hold">>]

\* layer1.press(key): class Layer defines __init__, hook and update and
\* inherits from object only, so the attribute lookup raises.
Layer_press(w, key) == [w EXCEPT !.error = "AttributeError"]

\* key.led_off()
Key_led_off(w, key) == Key_set_led(w, key, LED_DARK)

\* press_handler(key) of code.py
press_handler(w, key) ==
    LET w1 == Layer_press(w, key)
    IN  IF w1.error # "none" THEN w1 ELSE Key_set_led(w1, key, LAVENDER)

\* release_handler(key) of code.py
release_handler(w, key) == Key_led_off(w, key)

\* Calling a key's callback, when one is bound: a bound method of an Action
\* or one of the module-level handlers of code.py.
Invoke(w, fn, key) ==
    IF fn = None THEN w
    ELSE IF fn[2] = "press_handler" THEN press_handler(w, key)
    ELSE IF fn[2] = "release_handler" THEN release_handler(w, key)
    ELSE Call(w, fn[1], fn[2], key)

-----------------------------------------------------------------------------
(* Keybow2040.update: the matrix refresh of one polling cycle *)

NewKey == [pressed |-> FALSE, held |-> FALSE, press_function |-> None,
           release_function |-> None, hold_function |-> None]

\* Key.update for one key: st = [w, keys, edges]; due holds the keys whose
\* hold time has run out. A press edge calls press_function, a release edge
\* release_function, a key held long enough calls hold_function once.
Key_update(st, key, due) ==
    LET ko == st.keys[key]
    IN  IF st.w.error # "none" THEN st
        ELSE IF key \in down /\ ~ko.pressed
        THEN [w     |-> Invoke(st.w, ko.press_function, key),
              keys  |-> [st.keys EXCEPT ![key].pressed = TRUE],
              edges |-> [st.edges EXCEPT ![key] = "press"]]
        ELSE IF key \notin down /\ ko.pressed
        THEN [w     |-> Invoke(st.w, ko.release_function, key),
              keys  |-> [st.keys EXCEPT ![key].pressed = FALSE,
                                        ![key].held = FALSE],
              edges |-> [st.edges EXCEPT ![key] = "release"]]
        ELSE IF ko.pressed /\ ~ko.held /\ key \in due
        THEN [w     |-> Invoke(st.w, ko.hold_function, key),
              keys  |-> [st.keys EXCEPT ![key].held = TRUE],
              edges |-> [st.edges EXCEPT ![key] = "hold"]]
        ELSE st

RECURSIVE Keybow_update_from(_, _, _)
Keybow_update_from(st, key, due) ==
    IF key = NumKeys THEN st
    ELSE Keybow_update_from(Key_update(st, key, due), key + 1, due)

\* for _key in self.keys: _key.update()
Keybow_update(st, due) == Keybow_update_from(st, 0, due)

-----------------------------------------------------------------------------
(* Layer *)

Reversed(seq) == [i \in 1..Len(seq) |-> seq[Len(seq) + 1 - i]]

\* Mutant: the reverse flag ignored.
Layer_init_as_declared(matrix, rev) == matrix

\* Mutant: the Actions inside each row are put in reverse order as well.
Layer_init_rows_and_columns(matrix, rev) ==
    IF rev THEN Reversed([r \in DOMAIN matrix |-> Reversed(matrix[r])])
    ELSE matrix

\* Layer.__init__(key_action_matrix, reverse)
Layer_init(matrix, rev) == IF rev THEN Reversed(matrix) ELSE matrix

\* Whether matrix[x][y] exists (otherwise Python raises IndexError).
InMatrix(matrix, xy) ==
    /\ xy[1] < Len(matrix)
    /\ xy[2] < Len(matrix[xy[1] + 1])

\* Mutant: the two subscripts swapped.
Layer_action_transposed(matrix, key) ==
    matrix[number_to_xy(key)[2] + 1][number_to_xy(key)[1] + 1]

\* Mutant: the column index is dropped, every key of a grid row shares a cell.
Layer_action_first_column(matrix, key) ==
    matrix[number_to_xy(key)[1] + 1][1]

\* self.key_action_matrix[x][y] with x, y = number_to_xy(key.number)
Layer_action(matrix, key) ==
    matrix[number_to_xy(key)[1] + 1][number_to_xy(key)[2] + 1]

\* The body of the loop of Layer.hook: st = [keys, error, key_action_matrix]
Layer_hook_key(st, key) ==
    IF st.error # "none" THEN st
    ELSE IF ~InMatrix(st.key_action_matrix, number_to_xy(key))
    THEN [st EXCEPT !.error = "IndexError"]
    ELSE [st EXCEPT !.keys = KeyAction_hook(st.keys,
                                 Layer_action(st.key_action_matrix, key), key)]

RECURSIVE Layer_hook_from(_, _)
Layer_hook_from(st, key) ==
    IF key = NumKeys THEN st
    ELSE Layer_hook_from(Layer_hook_key(st, key), key + 1)

\* Mutant: hook() leaves the rows of the matrix in the opposite order.
Layer_hook_reversing(st) ==
    [Layer_hook_from(st, 0) EXCEPT !.key_action_matrix = Reversed(@)]

\* Layer.hook()
Layer_hook(st) == Layer_hook_from(st, 0)

\* Mutant: an Action already updated in this call is not updated again.
Layer_update_key_once_per_action(w, key) ==
    IF w.error # "none" THEN w
    ELSE IF ~InMatrix(w.key_action_matrix, number_to_xy(key))
    THEN [w EXCEPT !.error = "IndexError"]
    ELSE IF \E i \in DOMAIN w.calls :
                w.calls[i][1] = "update"
                /\ w.calls[i][2] = Layer_action(w.key_action_matrix, key)
    THEN w
    ELSE Call(w, Layer_action(w.key_action_matrix, key), "update", key)

\* The body of the loop of Layer.update
Layer_update_key(w, key) ==
    IF w.error # "none" THEN w
    ELSE IF ~InMatrix(w.key_action_matrix, number_to_xy(key))
    THEN [w EXCEPT !.error = "IndexError"]
    ELSE Call(w, Layer_action(w.key_action_matrix, key), "update", key)

RECURSIVE Layer_update_from(_, _)
Layer_update_from(w, key) ==
    IF key = NumKeys THEN w
    ELSE Layer_update_from(Layer_update_key(w, key), key + 1)

\* Mutant: the loop runs one key past the last.
Layer_update_extra_key(w) == Layer_update_key(Layer_update_from(w, 0), NumKeys)

\* Layer.update()
Layer_update(w) == Layer_update_from(w, 0)

-----------------------------------------------------------------------------
(* The configuration: the objects and the keymap the program is started with *)

s_ctrl_alt_M     == s_ctrl \o <<"-">> \o s_alt \o <<"-", "M">>
s_ctrl_alt_N     == s_ctrl \o <<"-">> \o s_alt \o <<"-", "N">>
s_ctrl_alt_cmd_M == s_ctrl \o <<"-">> \o s_alt \o <<"-">> \o s_cmd \o <<"-", "M">>
s_ctrl_alt_cmd_C == s_ctrl \o <<"-">> \o s_alt \o <<"-">> \o s_cmd \o <<"-", "C">>
s_two_chords     == s_ctrl_alt_M \o <<" ">> \o s_ctrl_alt_N

\* Objects 1..16 sit in the sixteen cells, 17..20 are the children of the
\* two And objects.
Heap0 ==
    << AlwaysOn_init(PURPLE),                       \*  1
       Press_init(s_ctrl_alt_M).obj,                \*  2  ToggleTalon
       Press_init(s_ctrl_alt_cmd_M).obj,            \*  3  ToggleMuted
       AlwaysOn_init(WHITE),                        \*  4
       ToggleWhenPressed_init(PURPLE, PINK),        \*  5
       SwitchWhenPressed_init(PURPLE, LAVENDER),    \*  6
       Mirror_init("CAPS_LOCK", PURPLE, INDIGO),    \*  7
       And_init(17, 18),                            \*  8
       And_init(19, 20),                            \*  9
       AlwaysOn_init(PURPLE),                       \* 10
       AlwaysOn_init(PURPLE),                       \* 11
       AlwaysOn_init(PURPLE),                       \* 12
       AlwaysOn_init(PURPLE),                       \* 13
       AlwaysOn_init(PURPLE),                       \* 14
       AlwaysOn_init(PURPLE),                       \* 15
       AlwaysOn_init(PURPLE),                       \* 16
       ToggleWhenPressed_init(PURPLE, INDIGO),      \* 17
       Press_init(s_two_chords).obj,                \* 18
       SwitchWhenPressed_init(WHITE, PINK),         \* 19
       AlwaysOn_init(LAVENDER) >>                   \* 20

Keymap0 == << <<1, 2, 3, 4>>, <<5, 6, 7, 8>>, <<9, 10, 11, 12>>, <<13, 14, 15, 16>> >>

\* The objects given reactions directly, without a Layer
DirectActions == {2, 5, 6, 7, 8, 9}

HistNew == [a \in 1..Len(Heap0) |-> [npress |-> 0, last |-> "none"]]

-----------------------------------------------------------------------------
(* The program: Layer.hook() once, then the polling loop *)

InitCommon ==
    /\ parsed = <<>>
    /\ keys = [k \in KeyNumbers |-> NewKey]
    /\ down = {}
    /\ host_leds = {}
    /\ led = [k \in KeyNumbers |-> LED_DARK]
    /\ ledws = <<>>
    /\ sent = <<>>
    /\ calls = <<>>
    /\ edges = [k \in KeyNumbers |-> "none"]
    /\ hist = HistNew
    /\ error = "none"

InitLayer ==
    /\ InitCommon
    /\ chords = <<>>
    /\ heap = Heap0
    /\ declared = Keymap0
    /\ reverse \in BOOLEAN
    /\ key_action_matrix = Layer_init(declared, reverse)

Init == InitLayer /\ pc = "hook" /\ budget = MaxFlips

Commit(w) ==
    /\ heap' = w.heap
    /\ led' = w.led
    /\ ledws' = w.ledws
    /\ sent' = w.sent
    /\ calls' = w.calls
    /\ error' = w.error
    /\ key_action_matrix' = w.key_action_matrix

\* The world at the start of a cycle or of a direct call: empty logs.
Fresh == [World EXCEPT !.calls = <<>>, !.ledws = <<>>]

After(err, next) == IF err = "none" THEN next ELSE "halted"

\* layer.hook() at startup
LayerHook ==
    /\ pc = "hook"
    /\ LET st == Layer_hook([keys |-> keys, error |-> error,
                             key_action_matrix |-> key_action_matrix])
       IN  /\ keys' = st.keys
           /\ error' = st.error
           /\ key_action_matrix' = st.key_action_matrix
           /\ pc' = After(st.error, "scan")
    /\ UNCHANGED <<chords, parsed, heap, declared, reverse,
                   down, host_leds, led, ledws, sent, calls, edges, hist, budget>>

\* globals.KEYBOW.update() in the loop: every key refreshed, edge callbacks run
KeybowUpdate ==
    /\ pc = "scan"
    /\ \E due \in SUBSET {k \in KeyNumbers : keys[k].pressed /\ ~keys[k].held} :
         LET st == Keybow_update([w |-> Fresh, keys |-> keys,
                                  edges |-> [k \in KeyNumbers |-> "none"]], due)
         IN  /\ Commit(st.w)
             /\ keys' = st.keys
             /\ edges' = st.edges
             /\ pc' = After(st.w.error, "update")
    /\ UNCHANGED <<chords, parsed, declared, reverse, down, host_leds, hist,
                   budget>>

\* layer.update() in the loop
LayerUpdate ==
    /\ pc = "update"
    /\ LET w == Layer_update(World)
       IN  /\ Commit(w)
           /\ pc' = After(w.error, "scan")
    /\ UNCHANGED <<chords, parsed, declared, reverse, keys, down, host_leds,
                   edges, hist, budget>>

\* The user presses or lets go of a switch. Only the matrix refresh reads the
\* switches, so a flip at any other moment is the same flip before the refresh.
Flip(k) ==
    /\ pc = "scan"
    /\ budget > 0
    /\ budget' = budget - 1
    /\ down' = IF k \in down THEN down \ {k} ELSE down \cup {k}
    /\ UNCHANGED <<pc, chords, parsed, heap, key_action_matrix, declared, reverse,
                   keys, host_leds, led, ledws, sent, calls, edges, hist, error>>

\* The host switches an indicator LED (read by update reactions only).
HostLedFlip(l) ==
    /\ pc \in {"update", "direct"}
    /\ budget > 0
    /\ budget' = budget - 1
    /\ host_leds' = IF l \in host_leds THEN host_leds \ {l} ELSE host_leds \cup {l}
    /\ UNCHANGED <<pc, chords, parsed, heap, key_action_matrix, declared, reverse,
                   keys, down, led, ledws, sent, calls, edges, hist, error>>

Next ==
    \/ LayerHook
    \/ KeybowUpdate
    \/ LayerUpdate
    \/ \E k \in KeyNumbers : Flip(k)
    \/ \E l \in HostLeds : HostLedFlip(l)

Spec == Init /\ [][Next]_vars

-----------------------------------------------------------------------------
(* Reactions given to single objects directly, in any order *)

InitDirect == InitLayer /\ pc = "direct" /\ budget = MaxCalls

\* The key whose cell holds action a
KeyOf(a) == CHOOSE k \in KeyNumbers : Layer_action(key_action_matrix, k) = a

DirectCall(a, method) ==
    /\ pc = "direct"
    /\ budget > 0
    /\ budget' = budget - 1
    /\ LET w == Call(Fresh, a, method, KeyOf(a))
       IN  /\ Commit(w)
           /\ pc' = After(w.error, "direct")
    /\ hist' = [hist EXCEPT
                  ![a].npress = IF method = "on_press" THEN @ + 1 ELSE @,
                  ![a].last   = IF method = "on_press" THEN "press"
                                ELSE IF method = "on_release" THEN "release"
                                ELSE @]
    /\ UNCHANGED <<chords, parsed, declared, reverse, keys, down, host_leds,
                   edges>>

DirectPress   == \E a \in DirectActions : DirectCall(a, "on_press")
DirectRelease == \E a \in DirectActions : DirectCall(a, "on_release")
DirectHold    == \E a \in DirectActions : DirectCall(a, "on_hold")
DirectUpdate  == \E a \in DirectActions : DirectCall(a, "update")

\* layer.update() called between the reactions
DirectLayerUpdate ==
    /\ pc = "direct"
    /\ budget > 0
    /\ budget' = budget - 1
    /\ LET w == Layer_update(Fresh)
       IN  /\ Commit(w)
           /\ pc' = After(w.error, "direct")
    /\ UNCHANGED <<chords, parsed, declared, reverse, keys, down, host_leds,
                   edges, hist>>

NextDirect ==
    \/ DirectPress
    \/ DirectRelease
    \/ DirectHold
    \/ DirectUpdate
    \/ DirectLayerUpdate
    \/ \E l \in HostLeds : HostLedFlip(l)

SpecDirect == InitDirect /\ [][NextDirect]_vars

-----------------------------------------------------------------------------
(* Press(chords) for chord strings of every shape *)

Pieces == {s_ctrl, s_alt, <<"C">>, <<"m">>, s_unicorn, <<"-">>, <<" ">>}

RECURSIVE Concatenations(_)
Concatenations(n) ==
    IF n = 0 THEN {<<>>}
    ELSE LET S == Concatenations(n - 1)
         IN  S \cup {s \o p : s \in S, p \in Pieces}

ChordStrings ==
    {s_ctrl_alt_M, s_ctrl_alt_cmd_M, s_ctrl_alt_cmd_C, s_two_chords, s_tab}
        \cup Concatenations(MaxPieces)

InitPress ==
    /\ InitCommon
    /\ chords \in ChordStrings
    /\ heap = <<>>
    /\ declared = <<>>
    /\ reverse = FALSE
    /\ key_action_matrix = <<>>
    /\ pc = "config"
    /\ budget = MaxCalls

\* Press.parse_chords(chords) called as the static method it is
ParseChords ==
    /\ pc = "config"
    /\ parsed = <<>>
    /\ parsed' = <<parse_chords(chords)>>
    /\ UNCHANGED <<pc, chords, heap, key_action_matrix, declared, reverse, keys,
                   down, host_leds, led, ledws, sent, calls, edges, hist, budget,
                   error>>

\* Press(chords) at configuration time
PressConstruct ==
    /\ pc = "config"
    /\ LET r == Press_init(chords)
       IN  /\ heap' = IF r.error = "none" THEN <<r.obj>> ELSE heap
           /\ error' = r.error
           /\ pc' = After(r.error, "ready")
    /\ UNCHANGED <<chords, parsed, key_action_matrix, declared, reverse, keys,
                   down, host_leds, led, ledws, sent, calls, edges, hist, budget>>

\* A reaction of the constructed Press, for key 0
PressCall(method) ==
    /\ pc = "ready"
    /\ budget > 0
    /\ budget' = budget - 1
    /\ LET w == Call(Fresh, 1, method, 0)
       IN  /\ Commit(w)
           /\ pc' = After(w.error, "ready")
    /\ hist' = [hist EXCEPT ![1].npress = IF method = "on_press" THEN @ + 1 ELSE @]
    /\ UNCHANGED <<chords, parsed, declared, reverse, keys, down, host_leds,
                   edges>>

PressOnPress   == PressCall("on_press")
PressOnRelease == PressCall("on_release")
PressOnHold    == PressCall("on_hold")
PressUpdate    == PressCall("update")

NextPress ==
    \/ ParseChords
    \/ PressConstruct
    \/ PressOnPress
    \/ PressOnRelease
    \/ PressOnHold
    \/ PressUpdate

SpecPress == InitPress /\ [][NextPress]_vars

-----------------------------------------------------------------------------
(* Vocabulary of the properties *)

Count(seq, e) == Cardinality({i \in DOMAIN seq : seq[i] = e})

\* The Action stored at key_action_matrix[x][y], (x, y) = number_to_xy(k)
CellAction(k) ==
    key_action_matrix[number_to_xy(k)[1] + 1][number_to_xy(k)[2] + 1]

\* The calls of the log made from outside, not by an And
Outer(method) ==
    {i \in DOMAIN calls : calls[i][1] = method /\ calls[i][4] = 0}

\* A polling cycle has run to its end: refresh, then Layer.update().
CycleDone == pc = "scan" /\ calls # <<>>

\* The matrix refresh of the cycle has run, Layer.update() maybe not yet.
Refreshed == pc = "update" \/ CycleDone

Before(e1, e2) ==
    \E i, j \in DOMAIN calls : i < j /\ calls[i] = e1 /\ calls[j] = e2

-----------------------------------------------------------------------------
(* C1: after hook(), in every cycle of the loop "refresh the matrix, then  *)
(* Layer.update()", the Action bound to a key gets on_press exactly once   *)
(* when the key has a press edge and not at all otherwise, on_release      *)
(* likewise for a release edge, and the edge reaction of a cycle comes      *)
(* before that key's update of the same cycle.                              *)
C1_EdgeReactionsOncePerEdge ==
    Refreshed =>
        \A k \in KeyNumbers :
            /\ Cardinality({i \in Outer("on_press") : calls[i][3] = k})
                   = IF edges[k] = "press" THEN 1 ELSE 0
            /\ Cardinality({i \in Outer("on_release") : calls[i][3] = k})
                   = IF edges[k] = "release" THEN 1 ELSE 0
            /\ edges[k] = "press" =>
                   Count(calls, <<"on_press", CellAction(k), k, 0>>) = 1
            /\ edges[k] = "release" =>
                   Count(calls, <<"on_release", CellAction(k), k, 0>>) = 1
            /\ (CycleDone /\ edges[k] = "press") =>
                   Before(<<"on_press", CellAction(k), k, 0>>,
                          <<"update", CellAction(k), k, 0>>)
            /\ (CycleDone /\ edges[k] = "release") =>
                   Before(<<"on_release", CellAction(k), k, 0>>,
                          <<"update", CellAction(k), k, 0>>)

\* A finished cycle in which a key that had been pressed was let go.
C1_Witness ==
    /\ CycleDone
    /\ \E k \in KeyNumbers :
         /\ edges[k] = "release"
         /\ Before(<<"on_release", CellAction(k), k, 0>>,
                   <<"update", CellAction(k), k, 0>>)

(* C2: one Layer.update() calls update(key) exactly once for each of the   *)
(* sixteen keys, on the Action at key_action_matrix[x][y] with             *)
(* (x, y) = number_to_xy(key.number), and makes no other update call.      *)
C2_UpdateOncePerKey ==
    CycleDone =>
        /\ Cardinality(Outer("update")) = NumKeys
        /\ \A k \in KeyNumbers :
             /\ Cardinality({i \in Outer("update") : calls[i][3] = k}) = 1
             /\ \A i \in Outer("update") :
                  calls[i][3] = k => calls[i][2] = CellAction(k)

\* A finished cycle whose sixteen updates are in the log, one of them on the
\* And of cell (3, 1), whose children were updated by the And.
C2_Witness ==
    /\ CycleDone
    /\ Cardinality(Outer("update")) = NumKeys
    /\ \E i \in DOMAIN calls : calls[i][1] = "update" /\ calls[i][4] = 1

(* C6: with reverse=True, a press on a key of grid row 0 (x = 0) reaches    *)
(* the Action written in the last declared row, same column, for every     *)
(* column.                                                                 *)
C6_ReversedRowZeroIsLastDeclared ==
    (Refreshed /\ reverse) =>
        \A k \in KeyNumbers :
            (number_to_xy(k)[1] = 0 /\ edges[k] = "press") =>
                \A i \in Outer("on_press") :
                    calls[i][3] = k =>
                        calls[i][2] = declared[Len(declared)][number_to_xy(k)[2] + 1]

\* Key 12 (x = 0, y = 3) pressed under reverse=True: object 16, the last of
\* the last declared row, got on_press.
C6_Witness ==
    /\ reverse
    /\ pc = "update"
    /\ edges[12] = "press"
    /\ Count(calls, <<"on_press", 16, 12, 0>>) = 1

-----------------------------------------------------------------------------
(* Properties of single Actions under direct calls (SpecDirect) *)

\* The last direct call was method on action a.
LastCall(method, a) ==
    calls # <<>> /\ calls[1] = <<method, a, KeyOf(a), 0>>

(* C3: ToggleWhenPressed(colorOff, colorOn): update writes colorOff after   *)
(* construction, colorOn after one on_press, colorOff again after a second *)
(* on_press with no release between; the colour update writes flips on     *)
(* every on_press and on nothing else. Object 5 is                          *)
(* ToggleWhenPressed(PURPLE, PINK).                                         *)
C3_ToggleFlipsOnPress ==
    /\ heap[5].color = IF hist[5].npress % 2 = 1 THEN PINK ELSE PURPLE
    /\ LastCall("update", 5) =>
           ledws = << <<KeyOf(5), IF hist[5].npress % 2 = 1 THEN PINK ELSE PURPLE>> >>

\* on_press, on_press, update and nothing else: update wrote colorOff.
C3_Witness ==
    /\ budget = MaxCalls - 3
    /\ hist[5].npress = 2
    /\ LastCall("update", 5)
    /\ ledws = << <<KeyOf(5), PURPLE>> >>

(* C4: SwitchWhenPressed(colorOff, colorOn): whatever the order of edges    *)
(* and however many updates are made or missed, an update writes colorOn    *)
(* exactly when the last edge was a press and colorOff otherwise, and after *)
(* a release the stored colour is colorOff. Object 6 is                     *)
(* SwitchWhenPressed(PURPLE, LAVENDER).                                     *)
C4_SwitchFollowsKeyState ==
    /\ LastCall("update", 6) =>
           ledws = << <<KeyOf(6), IF hist[6].last = "press" THEN LAVENDER
                                                            ELSE PURPLE>> >>
    /\ hist[6].last = "release" => heap[6].color = PURPLE
    /\ hist[6].last = "press" => heap[6].color = LAVENDER

\* on_press, on_release with no update between, then update: colorOff.
C4_Witness ==
    /\ budget = MaxCalls - 3
    /\ hist[6].npress = 1
    /\ hist[6].last = "release"
    /\ LastCall("update", 6)
    /\ ledws = << <<KeyOf(6), PURPLE>> >>

(* C5: one reaction on And(first, second) runs the same reaction on first   *)
(* and then on second, once each, with the same key, whatever first does.   *)
(* Objects 8 = And(17, 18) and 9 = And(19, 20).                             *)
C5_AndForwardsToBoth ==
    \A a \in {8, 9} :
        \A method \in {"on_press", "on_release", "on_hold", "update"} :
            LastCall(method, a) =>
                calls = << <<method, a, KeyOf(a), 0>>,
                           <<method, heap[a].first, KeyOf(a), 1>>,
                           <<method, heap[a].second, KeyOf(a), 1>> >>

\* on_hold on And(17, 18) reached both children.
C5_Witness ==
    /\ LastCall("on_hold", 8)
    /\ Len(calls) = 3
    /\ calls[3] = <<"on_hold", 18, KeyOf(8), 1>>

-----------------------------------------------------------------------------
(* Properties of Press and Press.parse_chords (SpecPress) *)

\* The space-separated groups of the chord string and the dash-separated
\* tokens of a group, as the grammar of the chord language has them.
Groups      == split(chords, " ")
Tokens(g)   == split(Groups[g], "-")

\* A token the built-in table does not have and the resolver rejects
BadToken(t) == t \notin DOMAIN SpecialKeys /\ LAYOUT_keycodes(t).error # "none"
HasBadToken == \E g \in DOMAIN Groups : \E i \in DOMAIN Tokens(g) : BadToken(Tokens(g)[i])

\* A token that is one capital letter
Capital(t)  == Len(t) = 1 /\ Has(UpperCase, t[1])

ParsedOk    == parsed # <<>> /\ parsed[1].error = "none"

C8_OneSendPerGroup ==
    pc = "ready" =>
        /\ Len(sent) = Len(Groups) * hist[1].npress
        /\ \A j \in DOMAIN sent :
               sent[j] = parse_chords(Groups[((j - 1) % Len(Groups)) + 1]).keycodes_chords[1]

\* "ctrl-alt-M ctrl-alt-N" pressed once: two sends, in group order.
C8_Witness ==
    /\ chords = s_two_chords
    /\ hist[1].npress = 1
    /\ sent = << <<"CONTROL", "ALT", "SHIFT", "M">>,
                 <<"CONTROL", "ALT", "SHIFT", "N">> >>

(* C9: constructing Press from a chord string with a token that is neither  *)
(* built in nor resolvable raises during construction: no Press object      *)
(* results and nothing is ever sent for it.                                 *)
C9_UnknownTokenFailsConstruction ==
    HasBadToken =>
        /\ heap = <<>>
        /\ sent = <<>>
        /\ pc \in {"config", "halted"}
        /\ pc = "halted" => error # "none"
        /\ parsed # <<>> => parsed[1].error # "none"

\* Press("unicorn") has raised.
C9_Witness ==
    /\ chords = s_unicorn
    /\ pc = "halted"
    /\ error = "TypeError"
    /\ heap = <<>>

(* C10: parse_chords looks every token up in SpecialKeys first and asks     *)
(* the layout resolver only for tokens the table does not have; a token of  *)
(* the table resolves to the table's keycode.                               *)
C10_BuiltInTableFirst ==
    parsed # <<>> =>
        /\ \A i \in DOMAIN parsed[1].consulted :
               parsed[1].consulted[i] \notin DOMAIN SpecialKeys
        /\ (Len(Groups) = 1 /\ Len(Tokens(1)) = 1 /\ chords \in DOMAIN SpecialKeys) =>
               parsed[1].keycodes_chords = << <<SpecialKeys[chords]>> >>

\* "ctrl-C" parsed: the resolver was asked for "C" only.
C10_Witness ==
    /\ chords = s_ctrl \o <<"-", "C">>
    /\ ParsedOk
    /\ parsed[1].consulted = << <<"C">> >>
    /\ parsed[1].keycodes_chords = << <<"CONTROL", "SHIFT", "C">> >>

(* C11: on_release, on_hold and update of a Press send nothing and write no *)
(* LED: whatever the events, the chord sequence has gone out exactly as     *)
(* often as on_press was called, so holding the key never repeats it.       *)
C11_OnlyPressTransmits ==
    pc = "ready" =>
        /\ Len(sent) = Len(heap[1].keycodes_chords) * hist[1].npress
        /\ ledws = <<>>
        /\ \A k \in KeyNumbers : led[k] = LED_DARK
        /\ (calls # <<>> /\ calls[1][1] # "on_press") => Len(calls) = 1

\* One on_press, then hold and update: the two chords went out once.
C11_Witness ==
    /\ chords = s_two_chords
    /\ budget = MaxCalls - 4
    /\ hist[1].npress = 1
    /\ calls = << <<"on_hold", 1, 0, 0>> >>
    /\ Len(sent) = 2

-----------------------------------------------------------------------------
(* Layers over matrices that are not 4x4: Layer.__init__ stores what it is *)
(* given, so hook() and update() can meet a cell that is not there         *)
(* (SpecShort).                                                            *)

\* The declared keymap cut down to its first nr rows of nc Actions each
CutKeymap(nr, nc) == [r \in 1 .. nr |-> SubSeq(Keymap0[r], 1, nc)]

Keymaps == {CutKeymap(nr, nc) : nr \in 0 .. Width, nc \in 0 .. Width}

InitShort ==
    /\ InitCommon
    /\ chords = <<>>
    /\ heap = Heap0
    /\ declared \in Keymaps
    /\ reverse \in BOOLEAN
    /\ key_action_matrix = Layer_init(declared, reverse)
    /\ pc = "direct"
    /\ budget = MaxCalls

\* layer.hook() called on the constructed Layer
DirectLayerHook ==
    /\ pc = "direct"
    /\ budget > 0
    /\ budget' = budget - 1
    /\ LET st == Layer_hook([keys |-> keys, error |-> error,
                             key_action_matrix |-> key_action_matrix])
       IN  /\ keys' = st.keys
           /\ error' = st.error
           /\ key_action_matrix' = st.key_action_matrix
           /\ pc' = After(st.error, "direct")
    /\ UNCHANGED <<chords, parsed, heap, declared, reverse, down, host_leds,
                   led, ledws, sent, calls, edges, hist>>

NextShort ==
    \/ DirectLayerHook
    \/ DirectLayerUpdate

SpecShort == InitShort /\ [][NextShort]_vars

-----------------------------------------------------------------------------
(* A keymap in which one Action object stands in two cells: the            *)
(* ToggleWhenPressed, object 5, also in the first cell of the first        *)
(* declared row (SpecShared). The program is that of Spec.                 *)

KeymapShared == [Keymap0 EXCEPT ![1][1] = 5]

InitShared ==
    /\ InitCommon
    /\ chords = <<>>
    /\ heap = Heap0
    /\ declared = KeymapShared
    /\ reverse \in BOOLEAN
    /\ key_action_matrix = Layer_init(declared, reverse)
    /\ pc = "hook"
    /\ budget = MaxFlips

NextShared ==
    \/ LayerHook
    \/ KeybowUpdate
    \/ LayerUpdate
    \/ \E k \in KeyNumbers : Flip(k)

SpecShared == InitShared /\ [][NextShared]_vars

-----------------------------------------------------------------------------
(* The main program of code.py: handlers attached to every key, then the   *)
(* loop that only refreshes the key matrix (SpecMain). The Layer is taken   *)
(* as constructed.                                                          *)

InitMain == InitLayer /\ pc = "attach" /\ budget = MaxFlips

\* for key in globals.KEYBOW.keys: the two decorators bind the handlers
AttachHandlers ==
    /\ pc = "attach"
    /\ keys' = [k \in KeyNumbers |->
                  [keys[k] EXCEPT !.press_function   = <<"code", "press_handler">>,
                                  !.release_function = <<"code", "release_handler">>]]
    /\ pc' = "scan"
    /\ UNCHANGED <<chords, parsed, heap, key_action_matrix, declared, reverse,
                   down, host_leds, led, ledws, sent, calls, edges, hist,
                   budget, error>>

\* while True: globals.KEYBOW.update()
MainLoop ==
    /\ pc = "scan"
    /\ \E due \in SUBSET {k \in KeyNumbers : keys[k].pressed /\ ~keys[k].held} :
         LET st == Keybow_update([w |-> Fresh, keys |-> keys,
                                  edges |-> [k \in KeyNumbers |-> "none"]], due)
         IN  /\ Commit(st.w)
             /\ keys' = st.keys
             /\ edges' = st.edges
             /\ pc' = After(st.w.error, "scan")
    /\ UNCHANGED <<chords, parsed, declared, reverse, down, host_leds, hist,
                   budget>>

NextMain ==
    \/ AttachHandlers
    \/ MainLoop
    \/ \E k \in KeyNumbers : Flip(k)

SpecMain == InitMain /\ [][NextMain]_vars

-----------------------------------------------------------------------------
(* C12: the mapping from key numbers to cells that Layer.hook and          *)
(* Layer.update use is a bijection between 0..15 and the cells (x, y) of   *)
(* 0..3 x 0..3: number to cell and back gives the number, and after hook() *)
(* every cell's Action is bound to exactly one key, the key               *)
(* xy_to_number(x, y); no two keys are bound to the same cell.             *)
C12_IndexGridBijection ==
    /\ \A k \in KeyNumbers :
         /\ number_to_xy(k) \in (0 .. Width - 1) \X (0 .. Width - 1)
         /\ xy_to_number(number_to_xy(k)[1], number_to_xy(k)[2]) = k
    /\ pc = "scan" =>
         \A x, y \in 0 .. Width - 1 :
            {k \in KeyNumbers :
                keys[k].press_function = <<key_action_matrix[x + 1][y + 1], "on_press">>}
              = {xy_to_number(x, y)}

\* After hook() with the rows as declared, key 13 (x = 1, y = 3) and no
\* other key is bound to the And written fourth in the second row.
C12_Witness ==
    /\ pc = "scan"
    /\ ~reverse
    /\ keys[13].press_function = <<8, "on_press">>
    /\ key_action_matrix[2][4] = 8
    /\ \A k \in KeyNumbers \ {13} : keys[k].press_function[1] # 8

(* C13: Layer has a press operation, and the press handler of the main     *)
(* program, run for a pressed key, calls on_press exactly once on the      *)
(* Action of that key's cell and on no other Action, without an error.     *)
C13_Original ==
    \A k \in KeyNumbers :
        edges[k] = "press" =>
            /\ error = "none"
            /\ Count(calls, <<"on_press", CellAction(k), k, 0>>) = 1
            /\ \A i \in DOMAIN calls :
                 (calls[i][1] = "on_press" /\ calls[i][3] = k) =>
                     calls[i][2] = CellAction(k)

-----------------------------------------------------------------------------
(* C14: every update of a Mirror reads the host indicator at that moment    *)
(* and writes colorOn when it is on and colorOff otherwise; what it writes  *)
(* depends on nothing else (not on earlier indicator values, not on press,  *)
(* release or hold events), and no reaction changes the Mirror object.      *)
(* Object 7 is Mirror(CAPS_LOCK, PURPLE, INDIGO).                           *)
C14_MirrorReadsIndicatorFresh ==
    [][ /\ heap'[7] = heap[7]
        /\ (/\ host_leds' = host_leds
            /\ calls' # <<>>
            /\ calls'[1] = <<"update", 7, KeyOf(7), 0>>)
           => /\ ledws' = << <<KeyOf(7), IF "CAPS_LOCK" \in host_leds
                                          THEN INDIGO ELSE PURPLE>> >>
              /\ led'[KeyOf(7)] = IF "CAPS_LOCK" \in host_leds
                                  THEN INDIGO ELSE PURPLE ]_vars

\* The indicator, off at first, went on, the key was pressed, and the update
\* wrote colorOn.
C14_Witness ==
    /\ budget = MaxCalls - 3
    /\ hist[7].npress = 1
    /\ host_leds = {"CAPS_LOCK"}
    /\ LastCall("update", 7)
    /\ ledws = << <<KeyOf(7), INDIGO>> >>

(* C15: with a Layer of validly constructed Actions on a 4x4 matrix, no     *)
(* sequence of on_press, on_release, on_hold and update reactions and of   *)
(* Layer.update() calls, in any order (release with no press before it,    *)
(* press after press), raises an error.                                    *)
C15_NoErrorFromKeyTraffic ==
    /\ error = "none"
    /\ pc = "direct"

\* Two presses of one key with no release between, then a Layer.update()
\* over the sixteen keys: no error.
C15_Witness ==
    /\ error = "none"
    /\ budget = MaxCalls - 3
    /\ hist[6].last = "press"
    /\ hist[6].npress = 2
    /\ Cardinality(Outer("update")) = NumKeys

-----------------------------------------------------------------------------
(* C16: in a cycle of the loop, the LED of a key whose cell holds an       *)
(* AlwaysOn, SwitchWhenPressed, ToggleWhenPressed or Mirror is written     *)
(* exactly once, by Layer.update(); the press, release and hold reactions  *)
(* that ran before it in the cycle wrote no LED.                           *)
C16_OneLedWritePerCycle ==
    /\ pc = "update" => ledws = <<>>
    /\ CycleDone =>
         \A k \in KeyNumbers :
            heap[CellAction(k)].cls \in LightClasses \cup {"Mirror"} =>
                Cardinality({i \in DOMAIN ledws : ledws[i][1] = k}) = 1

\* A finished cycle in which the key of the SwitchWhenPressed cell had a
\* press edge: its LED was written once, with colorOn.
C16_Witness ==
    /\ CycleDone
    /\ \E k \in KeyNumbers :
         /\ CellAction(k) = 6
         /\ edges[k] = "press"
         /\ Count(ledws, <<k, LAVENDER>>) = 1
         /\ Cardinality({i \in DOMAIN ledws : ledws[i][1] = k}) = 1

(* C17: an update of And(A, B) with A and B both LED variants writes the   *)
(* key's LED twice, A's colour then B's, and the LED then shows B's colour *)
(* as it is, not a mixture. Object 9 is And(19, 20) with                   *)
(* 19 = SwitchWhenPressed(WHITE, PINK) and 20 = AlwaysOn(LAVENDER).        *)
C17_AndLastWriteWins ==
    /\ LastCall("update", 9) =>
         /\ ledws = << <<KeyOf(9), IF hist[9].last = "press" THEN PINK ELSE WHITE>>,
                       <<KeyOf(9), LAVENDER>> >>
         /\ led[KeyOf(9)] = LAVENDER
    /\ Cardinality(Outer("update")) = NumKeys =>
         /\ led[KeyOf(9)] = LAVENDER
         /\ Cardinality({i \in DOMAIN ledws : ledws[i][1] = KeyOf(9)}) = 2

\* on_press on the And, then update: PINK was written, then LAVENDER, and
\* the LED is LAVENDER.
C17_Witness ==
    /\ budget = MaxCalls - 2
    /\ hist[9].last = "press"
    /\ LastCall("update", 9)
    /\ ledws = << <<KeyOf(9), PINK>>, <<KeyOf(9), LAVENDER>> >>
    /\ led[KeyOf(9)] = LAVENDER

(* C18: a plain AlwaysOn(color) keeps the colour given at construction     *)
(* through every press, release and hold of its key, and every update of   *)
(* it writes exactly that colour.                                          *)
C18_AlwaysOnWritesConstructionColour ==
    \A k \in KeyNumbers :
        heap[CellAction(k)].cls = "AlwaysOn" =>
            /\ heap[CellAction(k)].color = Heap0[CellAction(k)].color
            /\ CycleDone =>
                 \A i \in DOMAIN ledws :
                    ledws[i][1] = k => ledws[i][2] = Heap0[CellAction(k)].color

\* The key of AlwaysOn(WHITE) was pressed in one cycle and let go in the
\* next: the update after the release wrote WHITE.
C18_Witness ==
    /\ CycleDone
    /\ \E k \in KeyNumbers :
         /\ CellAction(k) = 4
         /\ edges[k] = "release"
         /\ Before(<<"on_release", 4, k, 0>>, <<"update", 4, k, 0>>)
         /\ Count(ledws, <<k, WHITE>>) = 1
         /\ led[k] = WHITE

-----------------------------------------------------------------------------
(* C19: once the Layer is constructed, which Action sits in which cell of  *)
(* key_action_matrix never changes: no step of the program (hook(), the    *)
(* matrix refresh with its press, release and hold reactions, update())    *)
(* changes it, with reverse=True and with reverse=False.                   *)
C19_MatrixNeverChanges ==
    [][key_action_matrix' = key_action_matrix]_vars

\* With reverse=True, after hook() and a whole cycle with a press, the
\* matrix is still the declared rows in reverse order.
C19_Witness ==
    /\ CycleDone
    /\ reverse
    /\ \E k \in KeyNumbers : edges[k] = "press"
    /\ key_action_matrix = <<Keymap0[4], Keymap0[3], Keymap0[2], Keymap0[1]>>

\* An Action together with the children it forwards to, when it is an And
Family(a) ==
    IF heap[a].cls = "And" THEN {a, heap[a].first, heap[a].second} ELSE {a}

(* C20: in a Layer whose sixteen cells hold distinct Actions, a press,     *)
(* release, hold or update on one key changes the fields of no Action but  *)
(* the one in that key's cell and, when that is an And, its two children;  *)
(* the state of the Action of every other key stays as it was.             *)
C20_StateIsPrivateToTheAction ==
    [][ \A b \in DOMAIN heap :
           heap'[b] # heap[b] =>
               /\ calls' # <<>>
               /\ calls'[1][4] = 0
               /\ calls'[1][3] = KeyOf(calls'[1][2])
               /\ b \in Family(calls'[1][2]) ]_vars

\* on_press on And(17, 18) set the latch of its child 17; the latch of the
\* ToggleWhenPressed of another key, object 5, is as constructed.
C20_Witness ==
    /\ budget = MaxCalls - 1
    /\ LastCall("on_press", 8)
    /\ heap[17].onoff
    /\ heap[17].color = INDIGO
    /\ heap[5] = Heap0[5]
    /\ heap[6] = Heap0[6]
    /\ Cardinality({CellAction(k) : k \in KeyNumbers}) = NumKeys

-----------------------------------------------------------------------------
(* C25: a reaction of the Action of key k, called with key k, writes the   *)
(* LED of no key but k; a reaction of an LED variant sends nothing to the  *)
(* host and a reaction of a Press writes no LED. Sends come from the Press *)
(* objects 2 and 18 (child of And 8) only, one per group and on_press.     *)
C25_OutputsStayOnOwnKey ==
    /\ (calls # <<>> /\ Cardinality(Outer("update")) # NumKeys) =>
          /\ \A i \in DOMAIN ledws : ledws[i][1] = calls[1][3]
          /\ heap[calls[1][2]].cls = "Press" => ledws = <<>>
    /\ Cardinality(Outer("update")) = NumKeys =>
          \A k \in KeyNumbers :
             Cardinality({i \in DOMAIN ledws : ledws[i][1] = k})
               = Cardinality({i \in DOMAIN calls :
                                 /\ calls[i][1] = "update"
                                 /\ calls[i][3] = k
                                 /\ heap[calls[i][2]].cls \in LightClasses \cup {"Mirror"}})
    /\ Len(sent) = hist[2].npress * Len(heap[2].keycodes_chords)
                   + hist[8].npress * Len(heap[18].keycodes_chords)

\* After a press of the Press and a press of the toggle, an update of the
\* SwitchWhenPressed wrote its own key's LED only, and the one chord of the
\* Press is all that was sent.
C25_Witness ==
    /\ budget = MaxCalls - 3
    /\ hist[2].npress = 1
    /\ hist[5].npress = 1
    /\ LastCall("update", 6)
    /\ ledws = << <<KeyOf(6), PURPLE>> >>
    /\ Len(sent) = 1
    /\ \A k \in KeyNumbers \ {KeyOf(6)} : led[k] = LED_DARK

(* C26: for a ToggleWhenPressed the latch is True exactly when the number   *)
(* of on_press calls so far is odd, whatever on_release, on_hold and update *)
(* calls lie between them. Objects 5 (called directly) and 17 (child of     *)
(* And 8).                                                                 *)
C26_LatchIsParityOfPresses ==
    /\ heap[5].onoff = (hist[5].npress % 2 = 1)
    /\ heap[17].onoff = (hist[8].npress % 2 = 1)

\* on_press, on_release, update, on_press on object 5: the latch is False
\* again.
C26_Witness ==
    /\ budget = MaxCalls - 4
    /\ hist[5].npress = 2
    /\ hist[5].last = "release"
    /\ ~heap[5].onoff
    /\ led[KeyOf(5)] = PINK

(* C27: in every state of a ToggleWhenPressed(colorOff, colorOn) the stored *)
(* colour, the one update writes, is colorOn when the latch is True and     *)
(* colorOff when it is False, from construction on.                         *)
C27_ColourAgreesWithLatch ==
    \A a \in DOMAIN heap :
        heap[a].cls = "ToggleWhenPressed" =>
            /\ heap[a].color = IF heap[a].onoff THEN heap[a].COLOR_ON
                                                ELSE heap[a].COLOR_OFF
            /\ (calls # <<>> /\ calls[1][1] = "update" /\ calls[1][2] = a) =>
                  ledws = << <<calls[1][3], IF heap[a].onoff THEN heap[a].COLOR_ON
                                                             ELSE heap[a].COLOR_OFF>> >>

\* Three presses of object 5, then update: latch True, colorOn written.
C27_Witness ==
    /\ budget = MaxCalls - 4
    /\ hist[5].npress = 3
    /\ heap[5].onoff
    /\ LastCall("update", 5)
    /\ ledws = << <<KeyOf(5), PINK>> >>

-----------------------------------------------------------------------------
\* The chord string has an empty token: it is empty, or has a space or a
\* dash at an end, or two of them in a row.
HasEmptyToken ==
    \E g \in DOMAIN Groups : \E i \in DOMAIN Tokens(g) : Tokens(g)[i] = <<>>

(* C23: a chord string that yields an empty token or an empty group (the   *)
(* empty string, a space or dash at either end, two in a row) makes the    *)
(* construction of the Press raise: no object results and no reaction is   *)
(* ever run for it; and no constructed Press has an empty group.           *)
C23_EmptyTokenFailsConstruction ==
    /\ HasEmptyToken =>
          /\ heap = <<>>
          /\ sent = <<>>
          /\ calls = <<>>
          /\ pc \in {"config", "halted"}
          /\ pc = "halted" => error # "none"
          /\ parsed # <<>> => parsed[1].error # "none"
    /\ heap # <<>> =>
          /\ heap[1].keycodes_chords # <<>>
          /\ \A g \in DOMAIN heap[1].keycodes_chords :
                heap[1].keycodes_chords[g] # <<>>

\* Press("ctrl--") has raised on the empty token between the dashes.
C23_Witness ==
    /\ chords = s_ctrl \o <<"-", "-">>
    /\ HasEmptyToken
    /\ pc = "halted"
    /\ error = "TypeError"
    /\ heap = <<>>

\* What one token resolves to, when it resolves
Resolution(t) ==
    IF t \in DOMAIN SpecialKeys THEN <<SpecialKeys[t]>>
    ELSE LAYOUT_keycodes(t).keycodes

RECURSIVE Flatten(_)
Flatten(seqs) == IF seqs = <<>> THEN <<>> ELSE Head(seqs) \o Flatten(Tail(seqs))

(* C28: parse_chords returns one list per space-separated part of the      *)
(* string, in order, and the list of a part is the resolutions of its      *)
(* tokens joined in token order, each resolution whole and in the          *)
(* resolver's order (a capital letter gives SHIFT and then the letter).    *)
C28_GroupsAreJoinedResolutions ==
    ParsedOk =>
        /\ Len(parsed[1].keycodes_chords) = Len(Groups)
        /\ \A g \in DOMAIN Groups :
              parsed[1].keycodes_chords[g] =
                  Flatten([i \in DOMAIN Tokens(g) |-> Resolution(Tokens(g)[i])])

\* "ctrl-alt-M ctrl-alt-N" parsed: two groups, and in each the capital gave
\* two keycodes after those of the two built-in tokens.
C28_Witness ==
    /\ chords = s_two_chords
    /\ Len(Groups) = 2
    /\ ParsedOk
    /\ parsed[1].keycodes_chords = << <<"CONTROL", "ALT", "SHIFT", "M">>,
                                      <<"CONTROL", "ALT", "SHIFT", "N">> >>

(* C30: a Press does not change after construction: its parsed groups stay *)
(* what parse_chords gave, and every press sends the same groups and       *)
(* keycodes as the first press, whatever release, hold and update calls    *)
(* lie between.                                                            *)
C30_PressIsStateless ==
    pc = "ready" =>
        /\ heap[1] = Press_init(chords).obj
        /\ Len(sent) = hist[1].npress * Len(heap[1].keycodes_chords)
        /\ \A j \in DOMAIN sent :
              j > Len(heap[1].keycodes_chords) =>
                  sent[j] = sent[j - Len(heap[1].keycodes_chords)]

\* on_press, on_release, on_hold, on_press on Press("ctrl-alt-M ctrl-alt-N"):
\* the second press sent what the first did.
C30_Witness ==
    /\ chords = s_two_chords
    /\ budget = MaxCalls - 4
    /\ hist[1].npress = 2
    /\ calls = << <<"on_press", 1, 0, 0>> >>
    /\ Len(sent) = 4
    /\ sent[3] = sent[1]
    /\ sent[4] = sent[2]
    /\ sent[1] # sent[2]

-----------------------------------------------------------------------------
(* C24: when hook() or update() of a Layer meets a key whose cell is        *)
(* outside the stored matrix, the call either fails as a whole, with no    *)
(* key bound, no reaction run and no LED or HID effect, or ignores that    *)
(* key and serves the others without an error; it never serves some keys   *)
(* and then fails.                                                         *)
C24_Original ==
    error # "none" =>
        /\ calls = <<>>
        /\ ledws = <<>>
        /\ sent = <<>>
        /\ \A k \in KeyNumbers : keys[k] = NewKey

-----------------------------------------------------------------------------
(* C22: after Layer.hook() the press, release and hold callbacks of each   *)
(* of the sixteen keys are on_press, on_release and on_hold of the Action  *)
(* in the key's cell (of the And itself where the cell holds an And), and  *)
(* a press edge on a key then calls on_press of that Action only: once    *)
(* from the key, and beyond that only on the children an And forwards to.  *)
C22_HookBindsCellAction ==
    pc \notin {"hook", "halted"} =>
        \A k \in KeyNumbers :
            /\ keys[k].press_function   = <<CellAction(k), "on_press">>
            /\ keys[k].release_function = <<CellAction(k), "on_release">>
            /\ keys[k].hold_function    = <<CellAction(k), "on_hold">>
            /\ (pc = "update" /\ edges[k] = "press") =>
                 \A i \in DOMAIN calls :
                    calls[i][3] = k =>
                        /\ calls[i][1] = "on_press"
                        /\ calls[i][2] \in Family(CellAction(k))
                        /\ calls[i][4] = 0 <=> calls[i][2] = CellAction(k)

\* With the rows as declared, a press edge on key 13, whose cell holds
\* And(17, 18): on_press of the And from the key, of 17 and 18 from the And.
C22_Witness ==
    /\ pc = "update"
    /\ ~reverse
    /\ edges[13] = "press"
    /\ keys[13].press_function = <<8, "on_press">>
    /\ calls = << <<"on_press", 8, 13, 0>>, <<"on_press", 17, 13, 1>>,
                  <<"on_press", 18, 13, 1>> >>

-----------------------------------------------------------------------------
(* C29: a Layer made with reverse=True stores the declared rows in the     *)
(* opposite row order, each row as it was written                          *)
(* (stored[r][c] = declared[n-1-r][c]); with reverse=False it stores the   *)
(* rows as declared; and reversing the stored matrix of a reverse=True     *)
(* Layer once more gives the declared order back.                          *)
C29_ReverseIsRowReversal ==
    /\ Len(key_action_matrix) = Len(declared)
    /\ reverse =>
          /\ \A r \in DOMAIN declared :
                key_action_matrix[r] = declared[Len(declared) + 1 - r]
          /\ Layer_init(key_action_matrix, TRUE) = declared
    /\ ~reverse => key_action_matrix = declared

\* Three declared rows of four, reverse=True: the third row is stored first,
\* its four Actions in the declared order.
C29_Witness ==
    /\ reverse
    /\ declared = <<Keymap0[1], Keymap0[2], Keymap0[3]>>
    /\ key_action_matrix = << <<9, 10, 11, 12>>, <<5, 6, 7, 8>>, <<1, 2, 3, 4>> >>
    /\ Layer_init(key_action_matrix, TRUE) = declared

-----------------------------------------------------------------------------
\* The keys whose cell holds the shared ToggleWhenPressed, object 5
SharedKeys == {k \in KeyNumbers : CellAction(k) = 5}

(* C21: with one ToggleWhenPressed in two cells the two keys have one      *)
(* latch: a press edge on either key flips it (press edges on both in one  *)
(* refresh flip it twice), and after the next Layer.update() both LEDs     *)
(* show the same colour, the one the latch stands for.                     *)
C21_SharedToggleHasOneLatch ==
    [][ /\ (pc = "scan" /\ pc' = "update") =>
             heap'[5].onoff =
                IF Cardinality({k \in SharedKeys : edges'[k] = "press"}) = 1
                THEN ~heap[5].onoff ELSE heap[5].onoff
        /\ (pc = "update" /\ pc' = "scan") =>
             \A k \in SharedKeys :
                led'[k] = IF heap[5].onoff THEN PINK ELSE PURPLE ]_vars

\* One of the two keys was pressed: the latch is set and, after the
\* Layer.update() of that cycle, both keys show colorOn.
C21_Witness ==
    /\ CycleDone
    /\ Cardinality(SharedKeys) = 2
    /\ Cardinality({k \in SharedKeys : edges[k] = "press"}) = 1
    /\ heap[5].onoff
    /\ \A k \in SharedKeys : led[k] = PINK

====
